---- MODULE Spec2Model ----
(***************************************************************************)
(* Parking reservation/capacity engine: the request handlers of the       *)
(* capacity routes (sections/...), the parking routes (book, end-session)  *)
(* and the history route (delete), over the shared store: the tables       *)
(* parking_section, parking_spot and reservations.                         *)
(*                                                                         *)
(* A handler is a sequence of statements against the store.  A handler     *)
(* that runs its statements in one transaction is visible to the others    *)
(* only at its commit; its plain SELECTs are non-locking snapshot reads,   *)
(* its SELECT ... FOR UPDATE holds the row until commit or rollback.  A    *)
(* handler without a transaction is one step per statement that reads or   *)
(* writes mutable rows.                                                    *)
(***************************************************************************)
EXTENDS Integers, Sequences, FiniteSets, TLC

\* ---- bounds of the model ----
NumUsers == 2        \* registered users
NumSections == 2     \* capacity-only motorcycle sections, ids 1..NumSections
NumSpots == 2        \* discrete spots, ids 1..NumSpots (ids overlap section ids)
MaxSpotRes == 3      \* reservations ever made of discrete spots
MaxSectionRes == 2   \* reservations ever made in capacity sections
BookCalls == 3       \* concurrent calls in the scenario of concurrent discrete bookings
RaceCalls == 2       \* concurrent calls in the scenario of concurrent capacity bookings
SectionCapacity == 1 \* parking_section.capacity of section 1; section i holds i - 1 more
MaxLabel == 2        \* pseudo-spot numbers a caller may name in assign/release
MaxTime == 2         \* milliseconds Date.now() may show when /reserve builds its key
MaxTokenLen == 3     \* length of a qr_key stored by an earlier version of the system

Users == 1..NumUsers
SectionIds == 1..NumSections
SpotIds == 1..NumSpots
LabelNums == 1..MaxLabel
Times == 1..MaxTime

\* the section that holds the discrete spots (a non-motorcycle section)
DiscreteSection == NumSections + 1

\* parking_section.capacity, set by the administration
Capacity(sec) == SectionCapacity + sec - 1

\* NULL of a nullable integer column, and of spot_number
NULL == 0
NoLabel == <<0, 0>>

\* ---- static tables: vehicles, spot types ----
VehicleTypes == {"Car", "bicycle", "EBike", "motorcycle"}
\* a vehicle is identified by its owner and its type: every user registers one of each
Vehicles == Users \X VehicleTypes
VehicleOwner(v) == v[1]
VehicleType(v) == v[2]

ToLowerCase(s) ==
  CASE s = "Car" -> "car"
    [] s = "Bike" -> "bike"
    [] s = "EBike" -> "ebike"
    [] OTHER -> s

\* parking_spot.spot_type: the first spot is for cars, the others for bikes
SpotType(s) == IF s = 1 THEN "car" ELSE "Bike"

\* expectedSpotType with no entry for ebike
ExpectedSpotTypeBicycleOnly(vehicleType) ==
  IF ToLowerCase(vehicleType) = "bicycle" THEN "bike"
  ELSE ToLowerCase(vehicleType)

ExpectedSpotType(vehicleType) ==
  IF ToLowerCase(vehicleType) = "bicycle" THEN "bike"
  ELSE IF ToLowerCase(vehicleType) = "ebike" THEN "bike"
  ELSE ToLowerCase(vehicleType)

TypesMatch(vehicleType, spotType) ==
  ExpectedSpotType(vehicleType) = ToLowerCase(spotType)

\* isMotorcycle that is never true: no request is redirected
IsMotorcycleNever(v) == FALSE

IsMotorcycle(v) == ToLowerCase(VehicleType(v)) = "motorcycle"

\* `${section_name}-${n}`: the section's name is modelled by its id
Label(sec, n) == <<sec, n>>

\* ---- tokens (reservations.qr_key); a string is the sequence of its characters ----
\* NULL of the qr_key column
NullToken == <<"NULL">>

\* uuidv4(): the n-th key generated; two calls never return the same key
Uuid(n) == <<"u", ToString(n)>>

\* `CAP-${Date.now()}-${userId}`
CapToken(now, u) == <<"C", ToString(now), ToString(u)>>

VARIABLES
  sections,      \* parking_section rows: capacity, parked_count, reserved_count, status
  spots,         \* parking_spot rows: status
  reservations,  \* reservations rows, index = reservation_id
  proc           \* the in-flight request of every slot

vars == <<sections, spots, reservations, proc>>

Procs == DOMAIN proc

\* ---- request slots ----
NoVehicle == <<0, "">>

Idle ==
  [step |-> "idle", op |-> "", user |-> 0, veh |-> NoVehicle, sec |-> 0, spot |-> 0,
   rid |-> 0, snap |-> 0, ok |-> FALSE, code |-> "", acquired |-> 0, released |-> 0,
   data |-> <<>>]

Request(op, step, u, sec, spot, rid, snap) ==
  [step |-> step, op |-> op, user |-> u, veh |-> NoVehicle, sec |-> sec, spot |-> spot,
   rid |-> rid, snap |-> snap, ok |-> FALSE, code |-> "", acquired |-> 0, released |-> 0,
   data |-> <<>>]

\* res.json / res.status(..).json: the handler is over, its response is recorded
Respond(op, u, sec, spot, rid, ok, code) ==
  [step |-> "done", op |-> op, user |-> u, veh |-> NoVehicle, sec |-> sec, spot |-> spot,
   rid |-> rid, snap |-> 0, ok |-> ok, code |-> code, acquired |-> 0, released |-> 0,
   data |-> <<>>]

Finish(p, ok, code) ==
  [proc EXCEPT ![p] = [Respond(proc[p].op, proc[p].user, proc[p].sec, proc[p].spot,
                               proc[p].rid, ok, code)
                         EXCEPT !.veh = proc[p].veh, !.acquired = proc[p].acquired,
                                !.released = proc[p].released]]

\* db.connection.getConnection() and connection.release(): the connections the handler
\* has taken from the pool, and the release calls it has made
Connection(rec, a, r) == [rec EXCEPT !.acquired = a, !.released = r]
Released(procs, p) == [procs EXCEPT ![p].released = @ + 1]

\* ---- rows ----
NewReservation(u, spotsId, sectionId, label, status, started, ended, qrKey) ==
  [user_id |-> u, parking_spots_id |-> spotsId, parking_section_id |-> sectionId,
   spot_number |-> label, booking_status |-> status,
   start_time |-> started, end_time |-> ended, qr_key |-> qrKey, deleted |-> FALSE]

\* a deleted row: its id is not reused, its columns are gone
Deleted ==
  [user_id |-> 0, parking_spots_id |-> 0, parking_section_id |-> 0,
   spot_number |-> NoLabel, booking_status |-> "", start_time |-> FALSE,
   end_time |-> FALSE, qr_key |-> NullToken, deleted |-> TRUE]

ResIds == 1..Len(reservations)
Exists(r) == r \in ResIds /\ ~reservations[r].deleted
Live(r) == Exists(r) /\ reservations[r].booking_status \in {"reserved", "active"}

\* rows are bounded: a request that may insert starts only while a row is left for it
\* (a deleted row counts for both kinds)
SpotInsertSteps == {"book_check", "book_locked"}
SectionInsertSteps == {"moto_read", "reserve_read", "assign_chk", "assign_ins", "guest_tx"}

CanInsertSpot ==
  Cardinality({r \in ResIds : reservations[r].deleted
                              \/ reservations[r].parking_section_id = DiscreteSection})
    + Cardinality({p \in Procs : proc[p].step \in SpotInsertSteps}) < MaxSpotRes

CanInsertSection ==
  Cardinality({r \in ResIds : reservations[r].deleted
                              \/ reservations[r].parking_section_id # DiscreteSection})
    + Cardinality({p \in Procs : proc[p].step \in SectionInsertSteps}) < MaxSectionRes

\* the reservation ids a caller may name: the rows inserted so far and one id beyond
NamedIds == 1..(Len(reservations) + 1)

SpotLocked(s) ==
  \E p \in Procs : proc[p].step \in {"book_check", "book_locked"} /\ proc[p].spot = s

\* the store after installation: empty sections, free spots, no reservation
InitStore ==
  /\ sections = [s \in SectionIds |->
        [capacity |-> Capacity(s), parked_count |-> 0, reserved_count |-> 0,
         status |-> "available"]]
  /\ spots = [s \in SpotIds |-> [status |-> "available"]]
  /\ reservations = <<>>

\* one request at a time
Init == InitStore /\ proc = <<Idle>>

\* ---- POST /book, discrete spot ----
\* the check of the vehicle before the transaction, then SELECT ... FOR UPDATE: the
\* handler waits until no other transaction holds the row, and holds it from then on
BookLock(p, u, v, s) ==
  /\ proc[p].step = "idle"
  /\ CanInsertSpot
  /\ ~IsMotorcycle(v) \/ VehicleOwner(v) # u
  /\ VehicleOwner(v) = u => ~SpotLocked(s)
  /\ proc' = [proc EXCEPT ![p] =
        [(IF VehicleOwner(v) # u
            THEN Respond("book", u, 0, s, 0, FALSE, "")
          ELSE Connection(Request("book", "book_check", u, 0, s, 0, 0), 1, 0))
         EXCEPT !.veh = v]]
  /\ UNCHANGED <<sections, spots, reservations>>

\* the checks under the lock: the spot's status, then the vehicle type against the spot
\* type; a refusal rolls back, which gives the row up
BookCheck(p) ==
  /\ proc[p].step = "book_check"
  /\ LET s == proc[p].spot
         v == proc[p].veh
     IN proc' =
          IF spots[s].status # "available"
            THEN Released(Finish(p, FALSE, "SPOT_UNAVAILABLE"), p)
          ELSE IF ~TypesMatch(VehicleType(v), SpotType(s))
            THEN [Released(Finish(p, FALSE, "VEHICLE_TYPE_MISMATCH"), p)
                    EXCEPT ![p].data = <<[vehicleType |-> VehicleType(v),
                                          spotType |-> SpotType(s),
                                          expectedSpotType |-> ExpectedSpotType(VehicleType(v))]>>]
          ELSE [proc EXCEPT ![p].step = "book_locked"]
  /\ UNCHANGED <<sections, spots, reservations>>

\* BookCommit without the update of parking_spot: the spot stays available
BookCommitNoUpdate(p) ==
  /\ proc[p].step = "book_locked"
  /\ reservations' = Append(reservations,
        NewReservation(proc[p].user, proc[p].spot, DiscreteSection,
                       Label(DiscreteSection, proc[p].spot), "reserved", FALSE, FALSE,
                       Uuid(Len(reservations) + 1)))
  /\ proc' = Released([Finish(p, TRUE, "") EXCEPT ![p].rid = Len(reservations) + 1], p)
  /\ UNCHANGED <<sections, spots>>

\* the conditional update, the insert and the commit
BookCommit(p) ==
  /\ proc[p].step = "book_locked"
  /\ LET s == proc[p].spot IN
       IF spots[s].status = "available"
       THEN /\ spots' = [spots EXCEPT ![s].status = "reserved"]
            /\ reservations' = Append(reservations,
                  NewReservation(proc[p].user, s, DiscreteSection, Label(DiscreteSection, s),
                                 "reserved", FALSE, FALSE, Uuid(Len(reservations) + 1)))
            /\ proc' = Released([Finish(p, TRUE, "") EXCEPT ![p].rid = Len(reservations) + 1], p)
       ELSE /\ proc' = Released(Finish(p, FALSE, "SPOT_ALREADY_BOOKED"), p)
            /\ UNCHANGED <<spots, reservations>>
  /\ UNCHANGED sections

\* ---- bookMotorcycleSection (POST /book with a motorcycle) ----
\* the snapshot the plain SELECT of the transaction sees: the section row, if it is offered
SectionOffered(sec) ==
  /\ sections[sec].capacity - sections[sec].parked_count - sections[sec].reserved_count > 0
  /\ sections[sec].status # "unavailable"

MotoRead(p, u, v, sec) ==
  /\ proc[p].step = "idle"
  /\ CanInsertSection
  /\ VehicleOwner(v) = u
  /\ IsMotorcycle(v)
  /\ proc' = [proc EXCEPT ![p] =
        IF ~SectionOffered(sec)
          THEN Connection(Respond("book_moto", u, sec, 0, 0, FALSE, "SECTION_NOT_AVAILABLE"), 1, 0)
        ELSE Connection(Request("book_moto", "moto_read", u, sec, 0, 0,
                                sections[sec].reserved_count), 1, 0)]
  /\ UNCHANGED <<sections, spots, reservations>>

\* the insert, the increment and the commit; the label comes from the count read before
MotoCommit(p) ==
  /\ proc[p].step = "moto_read"
  /\ LET sec == proc[p].sec IN
       /\ reservations' = Append(reservations,
             NewReservation(proc[p].user, 0, sec, Label(sec, proc[p].snap + 1),
                            "reserved", FALSE, FALSE, Uuid(Len(reservations) + 1)))
       /\ sections' = [sections EXCEPT ![sec].reserved_count = @ + 1]
  /\ proc' = Released([Finish(p, TRUE, "") EXCEPT ![p].rid = Len(reservations) + 1], p)
  /\ UNCHANGED spots

\* ---- POST /sections/:sectionId/reserve ----
Max0(n) == IF n > 0 THEN n ELSE 0

AvailableCapacity(sec) ==
  Max0(sections[sec].capacity - (sections[sec].parked_count + sections[sec].reserved_count))

ReserveRead(p, u, sec) ==
  /\ proc[p].step = "idle"
  /\ CanInsertSection
  /\ proc' = [proc EXCEPT ![p] =
        IF AvailableCapacity(sec) <= 0
          THEN Connection(Respond("reserve", u, sec, 0, 0, FALSE, ""), 1, 1)
        ELSE Connection(Request("reserve", "reserve_read", u, sec, 0, 0, 0), 1, 0)]
  /\ UNCHANGED <<sections, spots, reservations>>

\* the unique index on qr_key: an INSERT or an UPDATE that repeats a stored key throws
KeyTaken(qrKey) == \E r \in ResIds : Exists(r) /\ reservations[r].qr_key = qrKey

\* the row carries the section id in parking_spots_id, no parking_section_id and no
\* spot_number; its key is built from the clock and the user. A repeated key makes the
\* INSERT throw: rollback, 500
ReserveCommit(p, now) ==
  /\ proc[p].step = "reserve_read"
  /\ LET sec == proc[p].sec IN
       IF KeyTaken(CapToken(now, proc[p].user))
       THEN /\ proc' = Released(Finish(p, FALSE, ""), p)
            /\ UNCHANGED <<sections, reservations>>
       ELSE /\ reservations' = Append(reservations,
                  NewReservation(proc[p].user, sec, NULL, NoLabel, "reserved", TRUE, TRUE,
                                 CapToken(now, proc[p].user)))
            /\ sections' = [sections EXCEPT ![sec].reserved_count = @ + 1]
            /\ proc' = Released([Finish(p, TRUE, "") EXCEPT ![p].rid = Len(reservations) + 1], p)
  /\ UNCHANGED spots

\* ---- POST /sections/:sectionId/confirm-parking ----
\* ConfirmParking whose UPDATE has no "AND booking_status = 'reserved'"
ConfirmParkingAnyStatus(p, u, sec, rid) ==
  /\ proc[p].step = "idle"
  /\ IF Exists(rid) /\ reservations[rid].user_id = u
     THEN /\ reservations' = [reservations EXCEPT ![rid].booking_status = "active",
                                                  ![rid].start_time = TRUE]
          /\ sections' = [sections EXCEPT ![sec].reserved_count = @ - 1,
                                          ![sec].parked_count = @ + 1]
          /\ proc' = [proc EXCEPT ![p] = Connection(Respond("confirm", u, sec, 0, rid, TRUE, ""), 1, 1)]
     ELSE /\ proc' = [proc EXCEPT ![p] = Connection(Respond("confirm", u, sec, 0, rid, FALSE, ""), 1, 1)]
          /\ UNCHANGED <<sections, reservations>>
  /\ UNCHANGED spots

\* one transaction: the conditional update of the reservation, then the counters of the
\* section named in the request
ConfirmParking(p, u, sec, rid) ==
  /\ proc[p].step = "idle"
  /\ IF Exists(rid) /\ reservations[rid].user_id = u /\ reservations[rid].booking_status = "reserved"
     THEN /\ reservations' = [reservations EXCEPT ![rid].booking_status = "active",
                                                  ![rid].start_time = TRUE]
          /\ sections' = [sections EXCEPT ![sec].reserved_count = @ - 1,
                                          ![sec].parked_count = @ + 1]
          /\ proc' = [proc EXCEPT ![p] = Connection(Respond("confirm", u, sec, 0, rid, TRUE, ""), 1, 1)]
     ELSE /\ proc' = [proc EXCEPT ![p] = Connection(Respond("confirm", u, sec, 0, rid, FALSE, ""), 1, 1)]
          /\ UNCHANGED <<sections, reservations>>
  /\ UNCHANGED spots

\* ---- POST /sections/:sectionId/end-reservation ----
\* the rows the UPDATE matches: parking_spots_id = sectionId, the caller's, active
EndReservationRows(u, sec) ==
  {r \in ResIds : /\ Exists(r)
                  /\ reservations[r].parking_spots_id = sec
                  /\ reservations[r].user_id = u
                  /\ reservations[r].booking_status = "active"}

EndReservation(p, u, sec) ==
  /\ proc[p].step = "idle"
  /\ IF EndReservationRows(u, sec) # {}
     THEN /\ reservations' = [r \in ResIds |->
                IF r \in EndReservationRows(u, sec)
                THEN [reservations[r] EXCEPT !.booking_status = "completed", !.end_time = TRUE]
                ELSE reservations[r]]
          /\ sections' = [sections EXCEPT ![sec].parked_count = @ - 1]
          /\ proc' = [proc EXCEPT ![p] =
                Connection(Respond("end_reservation", u, sec, 0, 0, TRUE, ""), 1, 1)]
     ELSE /\ proc' = [proc EXCEPT ![p] =
                Connection(Respond("end_reservation", u, sec, 0, 0, FALSE, ""), 1, 1)]
          /\ UNCHANGED <<sections, reservations>>
  /\ UNCHANGED spots

\* ---- POST /sections/:sectionId/spots/:spotNumber/assign (no transaction) ----
\* the check for an active session of the caller
AssignCheckSession(p, u, v, sec, n) ==
  /\ proc[p].step = "idle"
  /\ CanInsertSection
  /\ proc' = [proc EXCEPT ![p] =
        IF VehicleOwner(v) # u
          THEN Respond("assign", u, sec, n, 0, FALSE, "")
        ELSE IF \E r \in ResIds : /\ Exists(r)
                                  /\ reservations[r].user_id = u
                                  /\ reservations[r].booking_status = "active"
          THEN Respond("assign", u, sec, n, 0, FALSE, "")
        ELSE Request("assign", "assign_chk", u, sec, n, 0, 0)]
  /\ UNCHANGED <<sections, spots, reservations>>

\* the rows of a section that hold a pseudo-spot label
LabelHolders(sec, n, statuses) ==
  {r \in ResIds : /\ Exists(r)
                  /\ reservations[r].parking_section_id = sec
                  /\ reservations[r].spot_number = Label(sec, n)
                  /\ reservations[r].booking_status \in statuses}

\* the check for a live reservation of the named pseudo-spot
AssignCheckSpot(p) ==
  /\ proc[p].step = "assign_chk"
  /\ proc' = IF LabelHolders(proc[p].sec, proc[p].spot, {"reserved", "active"}) # {}
             THEN Finish(p, FALSE, "")
             ELSE [proc EXCEPT ![p].step = "assign_ins"]
  /\ UNCHANGED <<sections, spots, reservations>>

AssignInsert(p) ==
  /\ proc[p].step = "assign_ins"
  /\ reservations' = Append(reservations,
        NewReservation(proc[p].user, 0, proc[p].sec, Label(proc[p].sec, proc[p].spot),
                       "reserved", FALSE, FALSE, Uuid(Len(reservations) + 1)))
  /\ proc' = [proc EXCEPT ![p].step = "assign_cnt", ![p].rid = Len(reservations) + 1]
  /\ UNCHANGED <<sections, spots>>

\* "Update section counts": parked_count, although the row is reserved
AssignCount(p) ==
  /\ proc[p].step = "assign_cnt"
  /\ sections' = [sections EXCEPT ![proc[p].sec].parked_count = @ + 1]
  /\ proc' = Finish(p, TRUE, "")
  /\ UNCHANGED <<spots, reservations>>

\* ---- POST /sections/:sectionId/spots/:spotNumber/guest-assign ----
\* the check for an active reservation of the named pseudo-spot, before the transaction
GuestCheckSpot(p, u, sec, n) ==
  /\ proc[p].step = "idle"
  /\ CanInsertSection
  /\ proc' = [proc EXCEPT ![p] =
        IF LabelHolders(sec, n, {"active"}) # {}
          THEN Respond("guest_assign", u, sec, n, 0, FALSE, "")
        ELSE Connection(Request("guest_assign", "guest_tx", u, sec, n, 0, 0), 1, 0)]
  /\ UNCHANGED <<sections, spots, reservations>>

\* users.insertId of the guest user created for the booking: a fresh user id; the key
\* the handler generates is not among the columns of its INSERT
GuestUserId(rid) == NumUsers + rid

\* the transaction: guest user, guest vehicle, an active reservation, parked_count
GuestCommit(p) ==
  /\ proc[p].step = "guest_tx"
  /\ reservations' = Append(reservations,
        NewReservation(GuestUserId(Len(reservations) + 1), 0, proc[p].sec,
                       Label(proc[p].sec, proc[p].spot), "active", TRUE, FALSE, NullToken))
  /\ sections' = [sections EXCEPT ![proc[p].sec].parked_count = @ + 1]
  /\ proc' = Released([Finish(p, TRUE, "") EXCEPT ![p].rid = Len(reservations) + 1], p)
  /\ UNCHANGED spots

\* ---- POST /sections/:sectionId/spots/:spotNumber/release (no transaction) ----
\* ReleaseRows whose UPDATE has no "AND user_id = ?"
ReleaseRowsAnyUser(u, sec, n) == LabelHolders(sec, n, {"active"})

ReleaseRows(u, sec, n) ==
  {r \in LabelHolders(sec, n, {"active"}) : reservations[r].user_id = u}

ReleaseUpdate(p, u, sec, n) ==
  /\ proc[p].step = "idle"
  /\ IF ReleaseRows(u, sec, n) # {}
     THEN /\ reservations' = [r \in ResIds |->
                IF r \in ReleaseRows(u, sec, n)
                THEN [reservations[r] EXCEPT !.booking_status = "completed", !.end_time = TRUE]
                ELSE reservations[r]]
          /\ proc' = [proc EXCEPT ![p] = Request("release", "release_cnt", u, sec, n, 0, 0)]
     ELSE /\ proc' = [proc EXCEPT ![p] = Respond("release", u, sec, n, 0, FALSE, "")]
          /\ UNCHANGED reservations
  /\ UNCHANGED <<sections, spots>>

ReleaseCount(p) ==
  /\ proc[p].step = "release_cnt"
  /\ sections' = [sections EXCEPT ![proc[p].sec].parked_count = @ - 1]
  /\ proc' = Finish(p, TRUE, "")
  /\ UNCHANGED <<spots, reservations>>

\* ---- PUT /end-session/:reservationId (no transaction) ----
EndSessionSelect(p, u, rid) ==
  /\ proc[p].step = "idle"
  /\ proc' = [proc EXCEPT ![p] =
        IF Exists(rid) /\ reservations[rid].user_id = u
          THEN Request("end_session", "end_upd", u, 0, 0, rid, reservations[rid].parking_spots_id)
        ELSE Respond("end_session", u, 0, 0, rid, FALSE, "")]
  /\ UNCHANGED <<sections, spots, reservations>>

\* UPDATE reservations ... WHERE reservation_id = ?: whatever the row's status is
EndSessionUpdate(p) ==
  /\ proc[p].step = "end_upd"
  /\ reservations' = IF Exists(proc[p].rid)
                     THEN [reservations EXCEPT ![proc[p].rid].booking_status = "completed",
                                               ![proc[p].rid].end_time = TRUE]
                     ELSE reservations
  /\ proc' = [proc EXCEPT ![p].step = "end_free"]
  /\ UNCHANGED <<sections, spots>>

\* UPDATE parking_spot SET status = 'available' WHERE parking_spot_id = the row's parking_spots_id
EndSessionFree(p) ==
  /\ proc[p].step = "end_free"
  /\ ~SpotLocked(proc[p].snap)
  /\ spots' = IF proc[p].snap \in SpotIds
              THEN [spots EXCEPT ![proc[p].snap].status = "available"]
              ELSE spots
  /\ proc' = Finish(p, TRUE, "")
  /\ UNCHANGED <<sections, reservations>>

\* ---- DELETE /parking/:reservationId (history) ----
DeleteSelect(p, u, rid) ==
  /\ proc[p].step = "idle"
  /\ proc' = [proc EXCEPT ![p] =
        IF Exists(rid) /\ reservations[rid].user_id = u
          THEN Request("delete", "del_del", u, 0, 0, rid, 0)
        ELSE Respond("delete", u, 0, 0, rid, FALSE, "")]
  /\ UNCHANGED <<sections, spots, reservations>>

DeleteRow(p) ==
  /\ proc[p].step = "del_del"
  /\ IF Exists(proc[p].rid)
     THEN /\ reservations' = [reservations EXCEPT ![proc[p].rid] = Deleted]
          /\ proc' = Finish(p, TRUE, "")
     ELSE /\ proc' = Finish(p, FALSE, "")
          /\ UNCHANGED reservations
  /\ UNCHANGED <<sections, spots>>

\* ---- PUT /sections/:sectionId/status ----
SectionStatuses == {"available", "unavailable"}

SetSectionStatus(p, u, sec, st) ==
  /\ proc[p].step = "idle"
  /\ sections' = [sections EXCEPT ![sec].status = st]
  /\ proc' = [proc EXCEPT ![p] = Respond("section_status", u, sec, 0, 0, TRUE, "")]
  /\ UNCHANGED <<spots, reservations>>

\* the client has read the response; the slot is free for the next request
Return(p) ==
  /\ proc[p].step = "done"
  /\ proc' = [proc EXCEPT ![p] = Idle]
  /\ UNCHANGED <<sections, spots, reservations>>

\* ---- the reads that return a reservation's token ----
\* String.prototype.trim: leading and trailing white space removed
RECURSIVE TrimStart(_)
TrimStart(str) ==
  IF str # <<>> /\ Head(str) = " " THEN TrimStart(Tail(str)) ELSE str

RECURSIVE TrimEnd(_)
TrimEnd(str) ==
  IF str # <<>> /\ str[Len(str)] = " " THEN TrimEnd(SubSeq(str, 1, Len(str) - 1)) ELSE str

Trim(str) == TrimEnd(TrimStart(str))

StartsWith(str, c) == str # <<>> /\ Head(str) = c

\* value || null
OrNull(str) == IF str = <<>> THEN NullToken ELSE str

\* GET /booking/:reservationId: "Ensure qr_key is a clean UUID string, not JSON". A text
\* that starts with { or [ parses to an object or does not parse: null either way
CleanQrKey(qrKey) ==
  IF qrKey = NullToken \/ qrKey = <<>> THEN NullToken
  ELSE IF StartsWith(Trim(qrKey), "{") \/ StartsWith(Trim(qrKey), "[") THEN NullToken
  ELSE OrNull(Trim(qrKey))

GetBooking(p, u, rid) ==
  /\ proc[p].step = "idle"
  /\ proc' = [proc EXCEPT ![p] =
        IF Exists(rid) /\ reservations[rid].user_id = u
          THEN [Respond("get_booking", u, 0, 0, rid, TRUE, "")
                  EXCEPT !.data = <<[reservationId |-> rid,
                                     qrKey |-> CleanQrKey(reservations[rid].qr_key)]>>]
        ELSE Respond("get_booking", u, 0, 0, rid, FALSE, "")]
  /\ UNCHANGED <<sections, spots, reservations>>

\* JOIN vehicles v ON r.vehicle_id = v.vehicle_id: the INSERT of /reserve, the one that
\* leaves parking_section_id out, leaves vehicle_id out as well, and its rows join nothing
HasVehicle(r) == reservations[r].parking_section_id # NULL

\* the caller's reservations that are reserved or active, joined with their vehicle
CurrentOf(u) == {r \in ResIds : Live(r) /\ reservations[r].user_id = u /\ HasVehicle(r)}

\* the ids of the rows of parking_section: the capacity sections and the section that
\* holds the discrete spots
AllSections == SectionIds \cup {DiscreteSection}

\* ORDER BY time_stamp DESC LIMIT 1: the row inserted last
MostRecent(rows) == CHOOSE r \in rows : \A q \in rows : q <= r

\* the booking of the response: the row's parking_spots_id is looked up in
\* parking_section first, and in parking_spot only when no section has that id; a row
\* found in neither gives booking: null. The stored qr_key is returned as it is
BookingOf(r) ==
  LET id == reservations[r].parking_spots_id IN
    IF id \in AllSections
      THEN <<[reservationId |-> r, qrKey |-> reservations[r].qr_key,
              spot_type |-> "motorcycle"]>>
    ELSE IF id \in SpotIds
      THEN <<[reservationId |-> r, qrKey |-> reservations[r].qr_key,
              spot_type |-> SpotType(id)]>>
    ELSE <<>>

\* GET /current-booking
CurrentBooking(p, u) ==
  /\ proc[p].step = "idle"
  /\ proc' = [proc EXCEPT ![p] =
        IF CurrentOf(u) = {}
          THEN Respond("current_booking", u, 0, 0, 0, TRUE, "")
        ELSE [Respond("current_booking", u, 0, 0, MostRecent(CurrentOf(u)), TRUE, "")
                EXCEPT !.data = BookingOf(MostRecent(CurrentOf(u)))]]
  /\ UNCHANGED <<sections, spots, reservations>>

\* the bookings of a user among the first n rows, the most recent first
RECURSIVE BookingsOf(_, _)
BookingsOf(u, n) ==
  IF n = 0 THEN <<>>
  ELSE IF Exists(n) /\ reservations[n].user_id = u
    THEN <<[reservationId |-> n, qrKey |-> reservations[n].qr_key]>> \o BookingsOf(u, n - 1)
  ELSE BookingsOf(u, n - 1)

\* GET /my-bookings: every reservation of the caller, the stored qr_key as it is
MyBookings(p, u) ==
  /\ proc[p].step = "idle"
  /\ proc' = [proc EXCEPT ![p] =
        [Respond("my_bookings", u, 0, 0, 0, TRUE, "")
           EXCEPT !.data = BookingsOf(u, Len(reservations))]]
  /\ UNCHANGED <<sections, spots, reservations>>

\* ---- GET /sections/:sectionId/spots: the virtual spots of a capacity section ----
\* parking_spot.parking_section_id: the discrete spots are all in the discrete section
SpotsOfSection(sec) == {s \in SpotIds : DiscreteSection = sec}

\* the rows of the reservations query that carry the label `${section_name}-${i}`, with
\* only the active ones taken
VirtualSpotRowsActiveOnly(sec, i) ==
  {r \in ResIds : /\ Exists(r)
                  /\ reservations[r].parking_section_id = sec
                  /\ reservations[r].booking_status = "active"
                  /\ \/ reservations[r].parking_spots_id = 0
                     \/ reservations[r].parking_spots_id \in SpotsOfSection(sec)
                  /\ reservations[r].spot_number = Label(sec, i)}

\* the rows of the reservations query that carry the label `${section_name}-${i}`
VirtualSpotRows(sec, i) ==
  {r \in ResIds : /\ Exists(r)
                  /\ reservations[r].parking_section_id = sec
                  /\ reservations[r].booking_status \in {"reserved", "active"}
                  /\ \/ reservations[r].parking_spots_id = 0
                     \/ reservations[r].parking_spots_id \in SpotsOfSection(sec)
                  /\ reservations[r].spot_number = Label(sec, i)}

\* reservations.find over ORDER BY r.start_time: a row with no later start_time than any
\* other (NULL sorts first); NULL when no row carries the label
FirstByStartTime(rows) ==
  IF rows = {} THEN {NULL}
  ELSE {r \in rows : \A q \in rows : reservations[r].start_time => reservations[q].start_time}

VirtualSpot(u, sec, i, r) ==
  [spotNumber |-> Label(sec, i),
   status |-> IF r # NULL THEN reservations[r].booking_status ELSE "available",
   isUserBooked |-> IF r # NULL THEN reservations[r].user_id = u ELSE FALSE,
   reservation |-> r]

ListVirtualSpots(p, u, sec) ==
  /\ proc[p].step = "idle"
  /\ \E found \in [1..sections[sec].capacity -> ResIds \cup {NULL}] :
       /\ \A i \in 1..sections[sec].capacity :
            found[i] \in FirstByStartTime(VirtualSpotRows(sec, i))
       /\ proc' = [proc EXCEPT ![p] =
             [Respond("list_spots", u, sec, 0, 0, TRUE, "")
                EXCEPT !.data = [i \in 1..sections[sec].capacity |->
                                   VirtualSpot(u, sec, i, found[i])]]]
  /\ UNCHANGED <<sections, spots, reservations>>

\* ---- GET /areas/:areaId/spots?vehicleType=motorcycle, without includeAll ----
\* the WHERE clause of the listing without its condition on the section's status
ListedSectionAnyStatus(sec) ==
  sections[sec].capacity - sections[sec].parked_count - sections[sec].reserved_count > 0

\* the WHERE clause of the listing: not unavailable, and a unit left
ListedSection(sec) ==
  /\ sections[sec].status # "unavailable"
  /\ sections[sec].capacity - sections[sec].parked_count - sections[sec].reserved_count > 0

\* the rows of the listing among the first n sections, ORDER BY section_name
RECURSIVE ListedUpTo(_)
ListedUpTo(n) ==
  IF n = 0 THEN <<>>
  ELSE IF ListedSection(n)
    THEN Append(ListedUpTo(n - 1), [id |-> n, status |-> "available"])
  ELSE ListedUpTo(n - 1)

ListAreaSpots(p, u) ==
  /\ proc[p].step = "idle"
  /\ proc' = [proc EXCEPT ![p] =
        [Respond("list_area", u, 0, 0, 0, TRUE, "") EXCEPT !.data = ListedUpTo(NumSections)]]
  /\ UNCHANGED <<sections, spots, reservations>>

\* ---- GET /areas/:areaId/capacity-status ----
\* is_user_booked: a reserved or active reservation of the caller whose
\* parking_section_id is the section
IsUserBooked(u, sec) ==
  \E r \in ResIds : /\ Exists(r)
                     /\ reservations[r].parking_section_id = sec
                     /\ reservations[r].user_id = u
                     /\ reservations[r].booking_status \in {"reserved", "active"}

SectionCapacityStatus(u, sec) ==
  [sectionId |-> sec,
   totalCapacity |-> sections[sec].capacity,
   availableCapacity |->
     Max0(sections[sec].capacity - (sections[sec].parked_count + sections[sec].reserved_count)),
   parkedCount |-> sections[sec].parked_count,
   reservedCount |-> sections[sec].reserved_count,
   isUserBooked |-> IsUserBooked(u, sec)]

CapacityStatus(p, u) ==
  /\ proc[p].step = "idle"
  /\ proc' = [proc EXCEPT ![p] =
        [Respond("capacity_status", u, 0, 0, 0, TRUE, "")
           EXCEPT !.data = [sec \in 1..NumSections |-> SectionCapacityStatus(u, sec)]]]
  /\ UNCHANGED <<sections, spots, reservations>>

\* ---- infrastructure failures: a statement or a call of the handler throws ----
\* the steps of the handlers that run without a transaction (every statement commits)
AutoCommitSteps ==
  {"assign_chk", "assign_ins", "assign_cnt", "release_cnt", "end_upd", "end_free", "del_del"}

\* the steps of the handlers that are inside their transaction
TransactionSteps == {"book_check", "book_locked", "moto_read", "reserve_read", "guest_tx"}

\* the next statement of a handler without a transaction throws: the outer catch answers
\* 500; the statements that ran before it stay committed
StatementFail(p) ==
  /\ proc[p].step \in AutoCommitSteps
  /\ proc' = Finish(p, FALSE, "")
  /\ UNCHANGED <<sections, spots, reservations>>

\* the body of a 500 response beside success and message: bookMotorcycleSection sends
\* the error's message, the other handlers nothing
ErrorMessage == "error.message"
FailureBody(op) == IF op = "book_moto" THEN <<[error |-> ErrorMessage]>> ELSE <<>>

\* a statement inside the transaction throws: the inner catch rolls back and releases
\* the connection, the outer catch answers 500
TxRollback(p) ==
  /\ proc[p].step \in TransactionSteps
  /\ proc' = [Released(Finish(p, FALSE, ""), p) EXCEPT ![p].data = FailureBody(proc[p].op)]
  /\ UNCHANGED <<sections, spots, reservations>>

\* bookMotorcycleSection commits and releases, then QRCode.toDataURL or the UPDATE of the
\* QR column throws: the inner catch rolls back (nothing is left to roll back) and
\* releases the connection again, the outer catch answers 500
MotoFailAfterCommit(p) ==
  /\ proc[p].step = "moto_read"
  /\ LET sec == proc[p].sec IN
       /\ reservations' = Append(reservations,
             NewReservation(proc[p].user, 0, sec, Label(sec, proc[p].snap + 1),
                            "reserved", FALSE, FALSE, Uuid(Len(reservations) + 1)))
       /\ sections' = [sections EXCEPT ![sec].reserved_count = @ + 1]
  /\ proc' = Released(Released([Finish(p, FALSE, "")
                                   EXCEPT ![p].rid = Len(reservations) + 1,
                                          ![p].data = FailureBody(proc[p].op)], p), p)
  /\ UNCHANGED spots

Next ==
  \/ \E p \in Procs, u \in Users, v \in Vehicles, s \in SpotIds : BookLock(p, u, v, s)
  \/ \E p \in Procs : BookCheck(p)
  \/ \E p \in Procs : BookCommit(p)
  \/ \E p \in Procs, u \in Users, v \in Vehicles, sec \in SectionIds : MotoRead(p, u, v, sec)
  \/ \E p \in Procs : MotoCommit(p)
  \/ \E p \in Procs, u \in Users, sec \in SectionIds : ReserveRead(p, u, sec)
  \/ \E p \in Procs, now \in Times : ReserveCommit(p, now)
  \/ \E p \in Procs, u \in Users, sec \in SectionIds, rid \in NamedIds : ConfirmParking(p, u, sec, rid)
  \/ \E p \in Procs, u \in Users, sec \in SectionIds : EndReservation(p, u, sec)
  \/ \E p \in Procs, u \in Users, v \in Vehicles, sec \in SectionIds, n \in LabelNums :
        AssignCheckSession(p, u, v, sec, n)
  \/ \E p \in Procs : AssignCheckSpot(p)
  \/ \E p \in Procs : AssignInsert(p)
  \/ \E p \in Procs : AssignCount(p)
  \/ \E p \in Procs, u \in Users, sec \in SectionIds, n \in LabelNums : GuestCheckSpot(p, u, sec, n)
  \/ \E p \in Procs : GuestCommit(p)
  \/ \E p \in Procs, u \in Users, sec \in SectionIds, n \in LabelNums : ReleaseUpdate(p, u, sec, n)
  \/ \E p \in Procs : ReleaseCount(p)
  \/ \E p \in Procs, u \in Users, rid \in NamedIds : EndSessionSelect(p, u, rid)
  \/ \E p \in Procs : EndSessionUpdate(p)
  \/ \E p \in Procs : EndSessionFree(p)
  \/ \E p \in Procs, u \in Users, rid \in NamedIds : DeleteSelect(p, u, rid)
  \/ \E p \in Procs : DeleteRow(p)
  \/ \E p \in Procs, u \in Users, sec \in SectionIds, st \in SectionStatuses :
        SetSectionStatus(p, u, sec, st)
  \/ \E p \in Procs, u \in Users, rid \in NamedIds : GetBooking(p, u, rid)
  \/ \E p \in Procs, u \in Users : CurrentBooking(p, u)
  \/ \E p \in Procs, u \in Users : MyBookings(p, u)
  \/ \E p \in Procs, u \in Users, sec \in SectionIds : ListVirtualSpots(p, u, sec)
  \/ \E p \in Procs, u \in Users : ListAreaSpots(p, u)
  \/ \E p \in Procs, u \in Users : CapacityStatus(p, u)
  \/ \E p \in Procs : StatementFail(p)
  \/ \E p \in Procs : TxRollback(p)
  \/ \E p \in Procs : MotoFailAfterCommit(p)
  \/ \E p \in Procs : Return(p)

Spec == Init /\ [][Next]_vars

\* ---- the scenario of concurrent bookings of discrete spots: every slot makes one call ----
InitBook == InitStore /\ proc = [p \in 1..BookCalls |-> Idle]

NextBook ==
  \/ \E p \in Procs, u \in Users, v \in Vehicles, s \in SpotIds : BookLock(p, u, v, s)
  \/ \E p \in Procs : BookCheck(p)
  \/ \E p \in Procs : BookCommit(p)

SpecBook == InitBook /\ [][NextBook]_vars

\* ---- the scenario of concurrent capacity bookings: every slot makes one call ----
InitRace == InitStore /\ proc = [p \in 1..RaceCalls |-> Idle]

NextRace ==
  \/ \E p \in Procs, u \in Users, v \in Vehicles, sec \in SectionIds : MotoRead(p, u, v, sec)
  \/ \E p \in Procs : MotoCommit(p)
  \/ \E p \in Procs, u \in Users, sec \in SectionIds : ReserveRead(p, u, sec)
  \/ \E p \in Procs, now \in Times : ReserveCommit(p, now)

SpecRace == InitRace /\ [][NextRace]_vars

\* ---- the capacity sections: every handler that books, moves or ends a capacity
\* reservation, one request at a time ----
NextSections ==
  \/ \E p \in Procs, u \in Users, v \in Vehicles, sec \in SectionIds : MotoRead(p, u, v, sec)
  \/ \E p \in Procs : MotoCommit(p)
  \/ \E p \in Procs, u \in Users, sec \in SectionIds : ReserveRead(p, u, sec)
  \/ \E p \in Procs, now \in Times : ReserveCommit(p, now)
  \/ \E p \in Procs, u \in Users, sec \in SectionIds, rid \in NamedIds : ConfirmParking(p, u, sec, rid)
  \/ \E p \in Procs, u \in Users, sec \in SectionIds : EndReservation(p, u, sec)
  \/ \E p \in Procs, u \in Users, v \in Vehicles, sec \in SectionIds, n \in LabelNums :
        AssignCheckSession(p, u, v, sec, n)
  \/ \E p \in Procs : AssignCheckSpot(p)
  \/ \E p \in Procs : AssignInsert(p)
  \/ \E p \in Procs : AssignCount(p)
  \/ \E p \in Procs, u \in Users, sec \in SectionIds, n \in LabelNums : GuestCheckSpot(p, u, sec, n)
  \/ \E p \in Procs : GuestCommit(p)
  \/ \E p \in Procs, u \in Users, sec \in SectionIds, n \in LabelNums : ReleaseUpdate(p, u, sec, n)
  \/ \E p \in Procs : ReleaseCount(p)
  \/ \E p \in Procs, u \in Users, rid \in NamedIds : EndSessionSelect(p, u, rid)
  \/ \E p \in Procs : EndSessionUpdate(p)
  \/ \E p \in Procs : EndSessionFree(p)
  \/ \E p \in Procs : Return(p)

SpecSections == Init /\ [][NextSections]_vars

\* ---- the discrete spots: booking and ending, one request at a time ----
NextDiscrete ==
  \/ \E p \in Procs, u \in Users, v \in Vehicles, s \in SpotIds : BookLock(p, u, v, s)
  \/ \E p \in Procs : BookCheck(p)
  \/ \E p \in Procs : BookCommit(p)
  \/ \E p \in Procs, u \in Users, rid \in NamedIds : EndSessionSelect(p, u, rid)
  \/ \E p \in Procs : EndSessionUpdate(p)
  \/ \E p \in Procs : EndSessionFree(p)
  \/ \E p \in Procs : Return(p)

SpecDiscrete == Init /\ [][NextDiscrete]_vars

\* ---- the capacity sections with failing statements, one request at a time ----
NextSectionFaults ==
  \/ NextSections
  \/ \E p \in Procs : StatementFail(p)
  \/ \E p \in Procs : TxRollback(p)

SpecSectionFaults == Init /\ [][NextSectionFaults]_vars

\* ---- POST /book, discrete spot or motorcycle section, with failures inside and after
\* the transaction, one request at a time ----
NextBookFaults ==
  \/ \E p \in Procs, u \in Users, v \in Vehicles, s \in SpotIds : BookLock(p, u, v, s)
  \/ \E p \in Procs : BookCheck(p)
  \/ \E p \in Procs : BookCommit(p)
  \/ \E p \in Procs, u \in Users, v \in Vehicles, sec \in SectionIds : MotoRead(p, u, v, sec)
  \/ \E p \in Procs : MotoCommit(p)
  \/ \E p \in Procs : TxRollback(p)
  \/ \E p \in Procs : MotoFailAfterCommit(p)
  \/ \E p \in Procs : Return(p)

SpecBookFaults == Init /\ [][NextBookFaults]_vars

\* ---- the pseudo-spots of the capacity sections: the handlers that write a label or
\* move a labelled reservation, and the listing, one request at a time ----
NextListing ==
  \/ \E p \in Procs, u \in Users, v \in Vehicles, sec \in SectionIds : MotoRead(p, u, v, sec)
  \/ \E p \in Procs : MotoCommit(p)
  \/ \E p \in Procs, u \in Users, sec \in SectionIds, rid \in NamedIds : ConfirmParking(p, u, sec, rid)
  \/ \E p \in Procs, u \in Users, v \in Vehicles, sec \in SectionIds, n \in LabelNums :
        AssignCheckSession(p, u, v, sec, n)
  \/ \E p \in Procs : AssignCheckSpot(p)
  \/ \E p \in Procs : AssignInsert(p)
  \/ \E p \in Procs : AssignCount(p)
  \/ \E p \in Procs, u \in Users, sec \in SectionIds, n \in LabelNums : GuestCheckSpot(p, u, sec, n)
  \/ \E p \in Procs : GuestCommit(p)
  \/ \E p \in Procs, u \in Users, sec \in SectionIds, n \in LabelNums : ReleaseUpdate(p, u, sec, n)
  \/ \E p \in Procs : ReleaseCount(p)
  \/ \E p \in Procs, u \in Users, sec \in SectionIds : ListVirtualSpots(p, u, sec)
  \/ \E p \in Procs : Return(p)

SpecListing == Init /\ [][NextListing]_vars

\* ---- the scenario of concurrent assignments of pseudo-spots: every slot makes one
\* call of assign or guest-assign ----
NextLabelRace ==
  \/ \E p \in Procs, u \in Users, v \in Vehicles, sec \in SectionIds, n \in LabelNums :
        AssignCheckSession(p, u, v, sec, n)
  \/ \E p \in Procs : AssignCheckSpot(p)
  \/ \E p \in Procs : AssignInsert(p)
  \/ \E p \in Procs : AssignCount(p)
  \/ \E p \in Procs, u \in Users, sec \in SectionIds, n \in LabelNums : GuestCheckSpot(p, u, sec, n)
  \/ \E p \in Procs : GuestCommit(p)

SpecLabelRace == InitRace /\ [][NextLabelRace]_vars

\* ---- what is offered to motorcycles: the handlers that fill a section or change its
\* status, the listing and the booking, one request at a time ----
NextOffer ==
  \/ \E p \in Procs, u \in Users, v \in Vehicles, sec \in SectionIds : MotoRead(p, u, v, sec)
  \/ \E p \in Procs : MotoCommit(p)
  \/ \E p \in Procs, u \in Users, sec \in SectionIds, n \in LabelNums : GuestCheckSpot(p, u, sec, n)
  \/ \E p \in Procs : GuestCommit(p)
  \/ \E p \in Procs, u \in Users, sec \in SectionIds, st \in SectionStatuses :
        SetSectionStatus(p, u, sec, st)
  \/ \E p \in Procs, u \in Users : ListAreaSpots(p, u)
  \/ \E p \in Procs : Return(p)

SpecOffer == Init /\ [][NextOffer]_vars

\* ---- the capacity status of the area: the capacity bookings, confirm and the status
\* read, one request at a time ----
NextStatus ==
  \/ \E p \in Procs, u \in Users, v \in Vehicles, sec \in SectionIds : MotoRead(p, u, v, sec)
  \/ \E p \in Procs : MotoCommit(p)
  \/ \E p \in Procs, u \in Users, sec \in SectionIds : ReserveRead(p, u, sec)
  \/ \E p \in Procs, now \in Times : ReserveCommit(p, now)
  \/ \E p \in Procs, u \in Users, sec \in SectionIds, rid \in NamedIds : ConfirmParking(p, u, sec, rid)
  \/ \E p \in Procs, u \in Users : CapacityStatus(p, u)
  \/ \E p \in Procs : Return(p)

SpecStatus == Init /\ [][NextStatus]_vars

\* ---- the handlers that move or remove a reservation the caller names, and the
\* capacity bookings that create one, one request at a time ----
NextOwnership ==
  \/ \E p \in Procs, u \in Users, v \in Vehicles, sec \in SectionIds : MotoRead(p, u, v, sec)
  \/ \E p \in Procs : MotoCommit(p)
  \/ \E p \in Procs, u \in Users, sec \in SectionIds : ReserveRead(p, u, sec)
  \/ \E p \in Procs, now \in Times : ReserveCommit(p, now)
  \/ \E p \in Procs, u \in Users, sec \in SectionIds, rid \in NamedIds : ConfirmParking(p, u, sec, rid)
  \/ \E p \in Procs, u \in Users, sec \in SectionIds : EndReservation(p, u, sec)
  \/ \E p \in Procs, u \in Users, sec \in SectionIds, n \in LabelNums : ReleaseUpdate(p, u, sec, n)
  \/ \E p \in Procs : ReleaseCount(p)
  \/ \E p \in Procs, u \in Users, rid \in NamedIds : EndSessionSelect(p, u, rid)
  \/ \E p \in Procs : EndSessionUpdate(p)
  \/ \E p \in Procs : EndSessionFree(p)
  \/ \E p \in Procs, u \in Users, rid \in NamedIds : DeleteSelect(p, u, rid)
  \/ \E p \in Procs : DeleteRow(p)
  \/ \E p \in Procs : Return(p)

SpecOwnership == Init /\ [][NextOwnership]_vars

\* ---- POST /book on both of its paths and the read of the current booking, one request
\* at a time ----
NextBooking ==
  \/ \E p \in Procs, u \in Users, v \in Vehicles, s \in SpotIds : BookLock(p, u, v, s)
  \/ \E p \in Procs : BookCheck(p)
  \/ \E p \in Procs : BookCommit(p)
  \/ \E p \in Procs, u \in Users, v \in Vehicles, sec \in SectionIds : MotoRead(p, u, v, sec)
  \/ \E p \in Procs : MotoCommit(p)
  \/ \E p \in Procs, u \in Users : CurrentBooking(p, u)
  \/ \E p \in Procs : Return(p)

SpecBooking == Init /\ [][NextBooking]_vars

\* ---- the reads of a token, over a store that holds one reservation written by an
\* earlier version of the system: its qr_key is NULL or any short text ----
TokenChars == {" ", "{", "[", "a"}

RECURSIVE Texts(_)
Texts(n) ==
  IF n = 0 THEN {<<>>}
  ELSE Texts(n - 1) \cup {Append(t, c) : t \in {x \in Texts(n - 1) : Len(x) = n - 1},
                                           c \in TokenChars}

StoredTokens == Texts(MaxTokenLen) \cup {NullToken}

InitTokens ==
  /\ sections = [s \in SectionIds |->
        [capacity |-> Capacity(s), parked_count |-> 0, reserved_count |-> 0,
         status |-> "available"]]
  /\ spots = [s \in SpotIds |-> [status |-> IF s = 1 THEN "reserved" ELSE "available"]]
  /\ \E k \in StoredTokens :
       reservations = <<NewReservation(1, 1, DiscreteSection, Label(DiscreteSection, 1),
                                       "reserved", FALSE, FALSE, k)>>
  /\ proc = <<Idle>>

NextTokens ==
  \/ \E p \in Procs, u \in Users, rid \in NamedIds : GetBooking(p, u, rid)
  \/ \E p \in Procs, u \in Users : CurrentBooking(p, u)
  \/ \E p \in Procs, u \in Users : MyBookings(p, u)
  \/ \E p \in Procs : Return(p)

SpecTokens == InitTokens /\ [][NextTokens]_vars
\* ======================= the claims =======================

\* ---- what the claims speak of ----
Done(p) == proc[p].step = "done"

\* the reservations that target a discrete spot, and a capacity section (by
\* parking_section_id, or by the section id that /reserve stores in parking_spots_id)
TargetsSpot(r, s) ==
  /\ reservations[r].parking_spots_id = s
  /\ reservations[r].parking_section_id = DiscreteSection

TargetsSection(r, sec) ==
  \/ reservations[r].parking_section_id = sec
  \/ reservations[r].parking_section_id = NULL /\ reservations[r].parking_spots_id = sec

LiveOfSpot(s) == {r \in ResIds : Live(r) /\ TargetsSpot(r, s)}
LiveOfSection(sec) == {r \in ResIds : Live(r) /\ TargetsSection(r, sec)}
LiveOfUser(u) == {r \in ResIds : Live(r) /\ reservations[r].user_id = u}

\* the calls of POST /book against spot s whose vehicle is the caller's and fits the spot
ValidBookCalls(s) ==
  {p \in Procs : /\ proc[p].op = "book"
                 /\ proc[p].spot = s
                 /\ VehicleOwner(proc[p].veh) = proc[p].user
                 /\ TypesMatch(VehicleType(proc[p].veh), SpotType(s))}

\* C1: once all the concurrent bookings of one available discrete spot (each with a
\* vehicle of the caller that fits the spot) have returned, exactly one has succeeded,
\* every other one has failed with SPOT_UNAVAILABLE or SPOT_ALREADY_BOOKED, and the
\* spot is reserved.
C1_ExactlyOneBooking ==
  \A s \in SpotIds :
    (ValidBookCalls(s) # {} /\ \A p \in ValidBookCalls(s) : Done(p)) =>
      /\ Cardinality({p \in ValidBookCalls(s) : proc[p].ok}) = 1
      /\ \A p \in ValidBookCalls(s) :
           ~proc[p].ok => proc[p].code \in {"SPOT_UNAVAILABLE", "SPOT_ALREADY_BOOKED"}
      /\ spots[s].status = "reserved"

\* every slot has booked the same spot with a fitting vehicle, and all have returned
C1_Witness ==
  \E s \in SpotIds :
    /\ ValidBookCalls(s) = Procs
    /\ \A p \in Procs : Done(p)
    /\ \E p \in Procs : ~proc[p].ok

\* the calls that book capacity in section sec
CapacityCalls(sec) ==
  {p \in Procs : proc[p].op \in {"book_moto", "reserve"} /\ proc[p].sec = sec}

\* C2: when k > c concurrent capacity bookings by distinct users of a section with c free
\* units have all returned, exactly c have succeeded, the others have failed, and
\* reserved_count has grown by c (from 0).
C2_ExactlyCapacityBookings ==
  \A sec \in SectionIds :
    ( /\ \A p \in CapacityCalls(sec) : Done(p)
      /\ \A p, q \in CapacityCalls(sec) : p # q => proc[p].user # proc[q].user
      /\ Cardinality(CapacityCalls(sec)) > Capacity(sec) ) =>
      /\ Cardinality({p \in CapacityCalls(sec) : proc[p].ok}) = Capacity(sec)
      /\ sections[sec].reserved_count = Capacity(sec)

\* C3: every section has parked_count + reserved_count <= capacity.
C3_WithinCapacity ==
  \A sec \in SectionIds :
    sections[sec].parked_count + sections[sec].reserved_count <= sections[sec].capacity

\* C4: the live (reserved or active) reservations of a capacity section are as many as
\* its reserved_count + parked_count.
C4_CountersMatchRows ==
  \A sec \in SectionIds :
    Cardinality(LiveOfSection(sec)) = sections[sec].reserved_count + sections[sec].parked_count

\* C5: a discrete spot is targeted by at most one live reservation.
C5_OneLivePerSpot ==
  \A s \in SpotIds : Cardinality(LiveOfSpot(s)) <= 1
\* C6: no reservation is created for a user who already holds a reserved or active
\* reservation.
C6_NoSecondLiveReservation ==
  [][\A u \in Users :
       ( /\ Len(reservations') > Len(reservations)
         /\ reservations'[Len(reservations')].user_id = u ) => LiveOfUser(u) = {}]_vars

\* C7: a step that confirms a reserved reservation of a capacity section (reserved ->
\* active) sets its start_time and moves one unit of that section from reserved_count
\* to parked_count, in the same step.
C7_ConfirmMovesCounters ==
  [][\A r \in ResIds, sec \in SectionIds :
       ( /\ Exists(r)
         /\ TargetsSection(r, sec)
         /\ reservations[r].booking_status = "reserved"
         /\ reservations'[r].booking_status = "active" ) =>
         /\ reservations'[r].start_time
         /\ sections'[sec].reserved_count = sections[sec].reserved_count - 1
         /\ sections'[sec].parked_count = sections[sec].parked_count + 1]_vars

\* slot p answers, in this step, a confirm-parking request
ConfirmAnswered(p) ==
  proc[p].step = "idle" /\ proc'[p].step = "done" /\ proc'[p].op = "confirm"

\* C8: confirm-parking of a reservation that is already active or completed fails and
\* leaves every reservation and every counter as it was.
C8_SecondConfirmFails ==
  [][\A p \in Procs :
       ( /\ ConfirmAnswered(p)
         /\ Exists(proc'[p].rid)
         /\ reservations[proc'[p].rid].booking_status \in {"active", "completed"} ) =>
         /\ ~proc'[p].ok
         /\ reservations' = reservations
         /\ sections' = sections]_vars

\* the owner of an active or completed reservation has confirmed it again and was refused
C8_Witness ==
  \E p \in Procs :
    /\ Done(p) /\ proc[p].op = "confirm" /\ ~proc[p].ok
    /\ Exists(proc[p].rid)
    /\ reservations[proc[p].rid].user_id = proc[p].user
    /\ reservations[proc[p].rid].booking_status \in {"active", "completed"}
    /\ reservations[proc[p].rid].start_time

\* the caller's reservations in a section
OfUserInSection(u, sec) ==
  {r \in ResIds : Exists(r) /\ reservations[r].user_id = u /\ TargetsSection(r, sec)}

\* C9: a transition attempted on a reservation that is not in the status the transition
\* starts from changes nothing and is answered with a failure: confirm-parking of a
\* reservation that is not reserved, end-reservation in a section where the caller has no
\* active reservation, and end-session of a reservation that is already completed.
C9_StaleTransitionRejected ==
  [][\A p \in Procs :
       /\ ( /\ ConfirmAnswered(p)
            /\ Exists(proc'[p].rid)
            /\ reservations[proc'[p].rid].booking_status # "reserved" ) =>
            ~proc'[p].ok /\ UNCHANGED <<reservations, spots, sections>>
       /\ ( /\ proc[p].step = "idle" /\ proc'[p].op = "end_reservation"
            /\ OfUserInSection(proc'[p].user, proc'[p].sec) # {}
            /\ \A r \in OfUserInSection(proc'[p].user, proc'[p].sec) :
                 reservations[r].booking_status # "active" ) =>
            ~proc'[p].ok /\ UNCHANGED <<reservations, spots, sections>>
       /\ ( /\ proc[p].step = "end_upd" /\ proc'[p].step # "end_upd"
            /\ Exists(proc[p].rid)
            /\ reservations[proc[p].rid].booking_status = "completed" ) =>
            /\ proc'[p].step = "done" /\ ~proc'[p].ok
            /\ UNCHANGED <<reservations, spots, sections>>]_vars

\* the active reservations of a section that a step completes
EndedInStep(sec) ==
  {r \in ResIds : /\ Exists(r)
                  /\ TargetsSection(r, sec)
                  /\ reservations[r].booking_status = "active"
                  /\ reservations'[r].booking_status = "completed"}

\* C10: a step that ends active reservations of a capacity section ends exactly one,
\* and parked_count of that section goes down by exactly 1 for it (in the step, or in
\* the counter statement the handler has still to run) and not below 0.
C10_EndDecrementsByOne ==
  [][\A sec \in SectionIds :
       EndedInStep(sec) # {} =>
         /\ Cardinality(EndedInStep(sec)) = 1
         /\ \/ sections'[sec].parked_count = sections[sec].parked_count - 1
            \/ \E p \in Procs : proc'[p].step = "release_cnt" /\ proc'[p].sec = sec
         /\ sections'[sec].parked_count >= 0]_vars

\* slot p answers, in this step, a release request
ReleaseAnswered(p) ==
  proc[p].step \in {"idle", "release_cnt"} /\ proc'[p].step = "done" /\ proc'[p].op = "release"

\* C11: cancelling a capacity reservation that is still reserved completes it and gives
\* its unit back: the step that takes a reserved reservation of a section to completed
\* decrements that section's reserved_count by 1 (no later statement of the cancelling
\* handlers touches reserved_count), and a release of a pseudo-spot on which the caller
\* holds a reserved reservation is not refused.
C11_ReleaseReturnsCapacity ==
  [][/\ \A r \in ResIds, sec \in SectionIds :
          ( /\ Exists(r)
            /\ TargetsSection(r, sec)
            /\ reservations[r].booking_status = "reserved"
            /\ reservations'[r].booking_status = "completed" ) =>
            sections'[sec].reserved_count = sections[sec].reserved_count - 1
     /\ \A p \in Procs :
          ( /\ ReleaseAnswered(p)
            /\ \E r \in LabelHolders(proc'[p].sec, proc'[p].spot, {"reserved"}) :
                  reservations[r].user_id = proc'[p].user ) =>
            proc'[p].ok]_vars

\* the handlers that reserve a unit of a capacity section
CapacityReserveOps == {"book_moto", "reserve", "assign"}

\* C12: a successful reserve on a capacity section, by POST /book with a motorcycle, by
\* /reserve or by assign, inserts exactly one row, in status reserved, adds 1 to
\* reserved_count of the section (with the insert, or in the counter statement that
\* follows it) and leaves parked_count of every section as it was.
C12_OneRowOneCounter ==
  [][\A p \in Procs :
       (proc'[p] # proc[p] /\ proc'[p].op \in CapacityReserveOps) =>
         /\ \A sec \in SectionIds : sections'[sec].parked_count = sections[sec].parked_count
         /\ Len(reservations') # Len(reservations) =>
              /\ Len(reservations') = Len(reservations) + 1
              /\ reservations'[Len(reservations')].booking_status = "reserved"
              /\ \/ sections'[proc'[p].sec].reserved_count
                       = sections[proc'[p].sec].reserved_count + 1
                 \/ proc'[p].step = "assign_cnt"
         /\ proc[p].step = "assign_cnt" =>
              sections'[proc'[p].sec].reserved_count = sections[proc'[p].sec].reserved_count + 1
         /\ (proc'[p].step = "done" /\ proc'[p].ok) =>
              \/ Len(reservations') = Len(reservations) + 1
              \/ proc[p].step = "assign_cnt"]_vars

\* C13: a handler that fails after one of its writes leaves none of them behind: when
\* assign fails after its insert, the inserted row is gone; when release fails after its
\* update, the rows it completed are active again.
C13_AllOrNothing ==
  [][\A p \in Procs :
       (proc'[p].step = "done" /\ ~proc'[p].ok) =>
         /\ proc[p].step = "assign_cnt" => ~Exists(proc[p].rid)'
         /\ proc[p].step = "release_cnt" =>
              \E r \in ResIds : /\ reservations[r].booking_status = "completed"
                                 /\ reservations'[r].booking_status = "active"]_vars

\* C14: a handler that has answered has released the connection it took from the
\* pool exactly once.
C14_ConnectionReleasedOnce ==
  \A p \in Procs : (Done(p) /\ proc[p].acquired = 1) => proc[p].released = 1

\* C15: the step in which POST /book, for a discrete spot or for a motorcycle section,
\* answers a failure commits nothing: no reservation row, no spot status and no counter
\* changes in it.
C15_FailureCommitsNothing ==
  [][\A p \in Procs :
       ( /\ proc[p].step # "done" /\ proc'[p].step = "done"
         /\ proc'[p].op \in {"book", "book_moto"}
         /\ ~proc'[p].ok ) =>
         UNCHANGED <<reservations, spots, sections>>]_vars

\* C16: every reservation carries a token, and no two reservations carry the same one.
C16_UniqueTokens ==
  /\ \A r \in ResIds : Exists(r) => reservations[r].qr_key # NullToken
  /\ \A r1, r2 \in ResIds :
       (Exists(r1) /\ Exists(r2) /\ r1 # r2) => reservations[r1].qr_key # reservations[r2].qr_key

\* a stored token that is structured data: its trimmed text begins with { or [
Malformed(k) ==
  /\ k # NullToken
  /\ \E i \in 1..Len(k) : /\ k[i] \in {"{", "["}
                            /\ \A j \in 1..(i - 1) : k[j] = " "

\* a stored token that is a bare token: some text is left after trimming, and it does
\* not begin with { or [
Bare(k) == k # NullToken /\ ~Malformed(k) /\ \E i \in 1..Len(k) : k[i] # " "

ReadOps == {"get_booking", "current_booking", "my_bookings"}

\* C17: every token that booking details, current-booking or my-bookings returns is null
\* when the stored token is structured data, and is the stored text without its leading
\* and trailing blanks when the stored token is a bare token.
C17_MalformedTokenRejected ==
  \A p \in Procs :
    (Done(p) /\ proc[p].op \in ReadOps /\ proc[p].ok) =>
      \A i \in 1..Len(proc[p].data) :
        LET k == reservations[proc[p].data[i].reservationId].qr_key
            out == proc[p].data[i].qrKey
        IN /\ Malformed(k) => out = NullToken
           /\ Bare(k) => /\ out # NullToken
                          /\ Len(out) <= Len(k)
                          /\ out # <<>>
                          /\ out[1] # " " /\ out[Len(out)] # " "
                          /\ \E a, b \in 0..Len(k) :
                               /\ k = [j \in 1..a |-> " "] \o out \o [j \in 1..b |-> " "]

\* the live reservations of a section that carry the pseudo-label of its i-th unit
LiveWithLabel(sec, i) ==
  {r \in LiveOfSection(sec) : reservations[r].spot_number = Label(sec, i)}

\* C18: the listing of a capacity section with capacity c has exactly c pseudo-spots, the
\* i-th labelled with the section's name and i; the i-th carries a reservation of the
\* section that is reserved or active and has that label, and that reservation's status,
\* exactly when there is such a reservation, and is available with no reservation
\* otherwise.
C18_VirtualSpots ==
  \A p \in Procs :
    (Done(p) /\ proc[p].op = "list_spots") =>
      /\ proc[p].ok
      /\ Len(proc[p].data) = sections[proc[p].sec].capacity
      /\ \A i \in 1..Len(proc[p].data) :
           LET spot == proc[p].data[i] IN
             /\ spot.spotNumber = Label(proc[p].sec, i)
             /\ IF LiveWithLabel(proc[p].sec, i) # {}
                THEN /\ spot.reservation \in LiveWithLabel(proc[p].sec, i)
                     /\ spot.status = reservations[spot.reservation].booking_status
                     /\ spot.status # "available"
                ELSE /\ spot.reservation = NULL
                     /\ spot.status = "available"

\* a listing of a section in which one pseudo-spot is held by a reserved reservation
\* and another one is available
C18_Witness ==
  \E p \in Procs :
    /\ Done(p) /\ proc[p].op = "list_spots"
    /\ \E i, j \in 1..Len(proc[p].data) :
         /\ proc[p].data[i].status = "reserved"
         /\ proc[p].data[i].reservation # NULL
         /\ proc[p].data[j].status = "available"

\* the calls of assign and guest-assign that were admitted to a section
Admitted(sec) ==
  {p \in Procs : /\ proc[p].op \in {"assign", "guest_assign"}
                 /\ proc[p].sec = sec
                 /\ Done(p) /\ proc[p].ok}

\* C19: admission to a capacity section is decided on its counters, not on the label the
\* caller names: of the concurrent calls of assign and guest-assign on an empty section,
\* no more are admitted than the section has capacity, and no two are admitted with the
\* same pseudo-label.
C19_CounterBasedAdmission ==
  \A sec \in SectionIds :
    /\ Cardinality(Admitted(sec)) <= Capacity(sec)
    /\ \A p, q \in Admitted(sec) : p # q => proc[p].spot # proc[q].spot

\* the spot type a vehicle type is mapped to
C20_Mapped(vehicleType) ==
  CASE ToLowerCase(vehicleType) = "bicycle" -> "bike"
    [] ToLowerCase(vehicleType) = "ebike" -> "bike"
    [] OTHER -> ToLowerCase(vehicleType)

\* C20: a booking of an available discrete spot with a vehicle of the caller, when it
\* checks the spot it has selected, goes on to
\* the update of the spot iff the lower-cased spot type equals the type the vehicle type
\* is mapped to (bicycle and ebike to bike, any other to its lower-cased name); otherwise
\* it is answered with VEHICLE_TYPE_MISMATCH, the vehicle type, the spot type and the
\* expected type, and neither the spot nor the reservations change.
C20_TypeCompatibility ==
  [][\A p \in Procs :
       ( /\ proc[p].step = "book_check" /\ proc'[p].step # "book_check"
         /\ VehicleOwner(proc'[p].veh) = proc'[p].user
         /\ spots[proc'[p].spot].status = "available" ) =>
         LET vt == VehicleType(proc'[p].veh)
             st == SpotType(proc'[p].spot)
         IN IF C20_Mapped(vt) = ToLowerCase(st)
            THEN proc'[p].step = "book_locked"
            ELSE /\ proc'[p].step = "done" /\ ~proc'[p].ok
                 /\ proc'[p].code = "VEHICLE_TYPE_MISMATCH"
                 /\ proc'[p].data = <<[vehicleType |-> vt, spotType |-> st,
                                       expectedSpotType |-> C20_Mapped(vt)]>>
                 /\ UNCHANGED <<spots, reservations>>]_vars

\* a booking of an available bike spot with the caller's car was refused
C20_Witness ==
  \E p \in Procs :
    /\ Done(p) /\ proc[p].op = "book"
    /\ proc[p].code = "VEHICLE_TYPE_MISMATCH"
    /\ SpotType(proc[p].spot) = "Bike"
    /\ VehicleType(proc[p].veh) = "Car"
    /\ proc[p].data # <<>>
    /\ spots[proc[p].spot].status = "available"

\* C21: every row inserted into reservations has status reserved.
C21_CreatedReserved ==
  [][Len(reservations') > Len(reservations) =>
       \A r \in (Len(reservations) + 1)..Len(reservations') :
         reservations'[r].booking_status = "reserved"]_vars

\* C22: the status of a reservation changes only from reserved to active, from active to
\* completed and from reserved to completed.
C22_StatusOrder ==
  [][\A r \in ResIds :
       ( /\ Exists(r) /\ ~reservations'[r].deleted
         /\ reservations'[r].booking_status # reservations[r].booking_status ) =>
         <<reservations[r].booking_status, reservations'[r].booking_status>> \in
           {<<"reserved", "active">>, <<"active", "completed">>, <<"reserved", "completed">>}]_vars

\* a reservation has gone from reserved through active to completed, and its owner has
\* then asked to confirm it again
C22_Witness ==
  \E p \in Procs :
    /\ Done(p) /\ proc[p].op = "confirm"
    /\ Exists(proc[p].rid)
    /\ reservations[proc[p].rid].user_id = proc[p].user
    /\ reservations[proc[p].rid].booking_status = "completed"
    /\ reservations[proc[p].rid].start_time
    /\ reservations[proc[p].rid].end_time
    /\ reservations[proc[p].rid].parking_section_id = proc[p].sec

\* C23: parked_count and reserved_count of every section are at least 0.
C23_CountersNotNegative ==
  \A sec \in SectionIds :
    sections[sec].parked_count >= 0 /\ sections[sec].reserved_count >= 0

\* a section has a unit left and is not unavailable
C24_Available(sec) ==
  /\ sections[sec].capacity - sections[sec].parked_count - sections[sec].reserved_count > 0
  /\ sections[sec].status # "unavailable"

C25_CapacityStatus ==
  \A p \in Procs :
    (Done(p) /\ proc[p].op = "capacity_status") =>
      /\ Len(proc[p].data) = NumSections
      /\ \A sec \in SectionIds :
           LET free == sections[sec].capacity - sections[sec].parked_count
                         - sections[sec].reserved_count
           IN /\ proc[p].data[sec].sectionId = sec
              /\ proc[p].data[sec].availableCapacity = (IF free > 0 THEN free ELSE 0)
              /\ proc[p].data[sec].isUserBooked
                   <=> (\E r \in LiveOfSection(sec) : reservations[r].user_id = proc[p].user)

\* C26: the label stored by a successful motorcycle booking of a section is the
\* section's name with the section's reserved_count as it is right after that booking's
\* own increment.
C26_LabelIsPostIncrementCount ==
  [][\A p \in Procs :
       ( /\ proc[p].step = "moto_read"
         /\ proc'[p].step = "done" /\ proc'[p].ok ) =>
         reservations'[proc'[p].rid].spot_number
           = Label(proc'[p].sec, sections'[proc'[p].sec].reserved_count)]_vars

\* C27: a reservation stores a pseudo-label iff it targets a capacity section: a
\* reservation of a capacity section stores its section and a label, a reservation of a
\* discrete spot stores no label.
C27_LabelIffCapacity ==
  \A r \in ResIds :
    Exists(r) =>
      /\ (\E sec \in SectionIds : TargetsSection(r, sec)) =>
           /\ reservations[r].parking_section_id \in SectionIds
           /\ reservations[r].spot_number # NoLabel
      /\ (\E s \in SpotIds : TargetsSpot(r, s)) => reservations[r].spot_number = NoLabel

CoreOps ==
  {"book", "book_moto", "reserve", "assign", "guest_assign", "confirm", "end_reservation",
   "end_session", "release"}

\* C28: every failure response of reserve, confirm, end and release carries an error
\* code.
C28_FailureHasCode ==
  \A p \in Procs :
    (Done(p) /\ proc[p].op \in CoreOps /\ ~proc[p].ok) => proc[p].code # ""

BookingOps == {"book", "book_moto", "reserve", "assign", "guest_assign"}

\* C29: a failure response of a booking path has no field that carries the text of an
\* internal error.
C29_OpaqueFailure ==
  \A p \in Procs :
    (Done(p) /\ proc[p].op \in BookingOps /\ ~proc[p].ok) =>
      \A i \in 1..Len(proc[p].data) : "error" \notin DOMAIN proc[p].data[i]

\* C30: a booking whose vehicle does not fit the spot never holds the lock on the spot's
\* row.
C30_CheckBeforeLock ==
  \A p \in Procs, s \in SpotIds :
    (proc[p].step \in {"book_check", "book_locked"} /\ proc[p].spot = s) =>
      C20_Mapped(VehicleType(proc[p].veh)) = ToLowerCase(SpotType(s))

\* no request is between two of its statements
Quiescent == \A p \in Procs : proc[p].step \in {"idle", "done"}

\* the reservations of a section in one status
OfSectionIn(sec, status) ==
  {r \in ResIds : /\ Exists(r)
                  /\ TargetsSection(r, sec)
                  /\ reservations[r].booking_status = status}

\* C31: whenever no request is under way, every capacity section's reserved_count is the
\* number of its reservations in status reserved, and its parked_count the number of its
\* reservations in status active.
C31_EachCounterMatchesRows ==
  Quiescent =>
    \A sec \in SectionIds :
      /\ sections[sec].reserved_count = Cardinality(OfSectionIn(sec, "reserved"))
      /\ sections[sec].parked_count = Cardinality(OfSectionIn(sec, "active"))

\* C32: whenever no request is under way, a discrete spot is reserved or occupied exactly
\* when a reserved or active reservation targets it.
C32_SpotHeldIffLive ==
  Quiescent =>
    \A s \in SpotIds :
      spots[s].status \in {"reserved", "occupied"} <=> LiveOfSpot(s) # {}

\* the reservations that a step moves to another status
Transitioned ==
  {r \in ResIds : Exists(r) /\ reservations'[r].booking_status # reservations[r].booking_status}

\* C33: a step of confirm-parking or end-reservation changes the counters only of a
\* section that a reservation it moves targets, and the counter step of release only of
\* the section of a completed reservation of the caller.
C33_OnlyTargetSectionChanges ==
  [][\A p \in Procs, sec \in SectionIds :
       (proc'[p] # proc[p] /\ sections'[sec] # sections[sec]) =>
         /\ proc'[p].op \in {"confirm", "end_reservation"} =>
              \E r \in Transitioned : TargetsSection(r, sec)
         /\ proc'[p].op = "release" =>
              \E r \in ResIds : /\ Exists(r)
                                /\ reservations[r].user_id = proc'[p].user
                                /\ reservations[r].booking_status = "completed"
                                /\ TargetsSection(r, sec)]_vars

\* the handlers that move a reservation to another status or delete it
MovingOps == {"confirm", "end_reservation", "release", "end_session", "delete"}

\* C34: a step of confirm-parking, end-reservation, release, end-session or the deletion
\* of a history record leaves every reservation of a user other than the caller as it is.
C34_OnlyOwnReservations ==
  [][\A p \in Procs, r \in ResIds :
       ( /\ proc'[p] # proc[p]
         /\ proc'[p].op \in MovingOps
         /\ Exists(r)
         /\ reservations[r].user_id # proc'[p].user ) =>
         reservations'[r] = reservations[r]]_vars

\* a release by one user has succeeded on a pseudo-spot while an active reservation of
\* another user is in the store
C34_Witness ==
  \E p \in Procs, r \in ResIds :
    /\ Done(p) /\ proc[p].op = "release" /\ proc[p].ok
    /\ Exists(r)
    /\ reservations[r].user_id # proc[p].user
    /\ reservations[r].booking_status = "active"
    /\ \E q \in ResIds : /\ Exists(q)
                         /\ reservations[q].user_id = proc[p].user
                         /\ reservations[q].booking_status = "completed"

\* the pseudo-spots of a listing that are not available
Taken(data) == {i \in 1..Len(data) : data[i].status # "available"}

\* C35: the reserved and active reservations of one capacity section carry different
\* pseudo-labels, each the section's name with a number from 1 to its capacity, and a
\* listing of the section shows as many pseudo-spots that are not available as the
\* section has reserved and active reservations.
C35_DistinctLabels ==
  /\ \A sec \in SectionIds :
       /\ \A r1, r2 \in LiveOfSection(sec) :
            r1 # r2 => reservations[r1].spot_number # reservations[r2].spot_number
       /\ \A r \in LiveOfSection(sec) :
            \E i \in 1..sections[sec].capacity : reservations[r].spot_number = Label(sec, i)
  /\ \A p \in Procs :
       (Done(p) /\ proc[p].op = "list_spots") =>
         Cardinality(Taken(proc[p].data)) = Cardinality(LiveOfSection(proc[p].sec))

\* the active reservations a user holds in a section through a motorcycle booking
MotoActive(u, sec) ==
  {r \in ResIds : /\ Exists(r)
                  /\ reservations[r].user_id = u
                  /\ reservations[r].parking_section_id = sec
                  /\ reservations[r].booking_status = "active"}

\* C36: after a motorcycle booking of a section and its confirmation, the end-reservation
\* of the same user for that section succeeds, completes the reservation and gives the
\* parked unit back, so that the section's counters are what they were before the booking
\* (the booking took one reserved unit, the confirmation moved it to parked).
C36_RoundTrip ==
  [][\A p \in Procs, sec \in SectionIds :
       ( /\ proc[p].step = "idle"
         /\ proc'[p].op = "end_reservation"
         /\ proc'[p].sec = sec
         /\ MotoActive(proc'[p].user, sec) # {} ) =>
         /\ proc'[p].ok
         /\ \A r \in MotoActive(proc'[p].user, sec) :
              reservations'[r].booking_status = "completed"
         /\ sections'[sec].parked_count = sections[sec].parked_count - 1
         /\ sections'[sec].reserved_count = sections[sec].reserved_count]_vars

\* C37: a reserved reservation has no start_time, a reservation has an end_time exactly
\* when it is completed, and an end_time that is set stays set.
C37_Timestamps ==
  /\ [](\A r \in ResIds :
          Exists(r) =>
            /\ reservations[r].booking_status = "reserved" => ~reservations[r].start_time
            /\ reservations[r].end_time <=> reservations[r].booking_status = "completed")
  /\ [][\A r \in ResIds :
          (Exists(r) /\ reservations[r].end_time /\ ~reservations'[r].deleted) =>
            reservations'[r].end_time]_vars

\* C38: current-booking returns a booking to a caller who holds a reserved or active
\* reservation, and the booking it returns is reported as one of a capacity section
\* exactly when its reservation was made in a capacity section.
C38_CurrentBooking ==
  \A p \in Procs :
    (Done(p) /\ proc[p].op = "current_booking") =>
      /\ LiveOfUser(proc[p].user) # {} => proc[p].data # <<>>
      /\ \A i \in 1..Len(proc[p].data) :
           proc[p].data[i].spot_type = "motorcycle" <=>
             reservations[proc[p].data[i].reservationId].parking_section_id \in SectionIds

\* C39: a step that creates a reservation in a capacity section finds the section's
\* status other than unavailable.
C39_NoBookingOnUnavailable ==
  [][Len(reservations') > Len(reservations) =>
       LET row == reservations'[Len(reservations')] IN
         \A sec \in SectionIds :
           ( \/ row.parking_section_id = sec
             \/ row.parking_section_id = NULL /\ row.parking_spots_id = sec ) =>
             sections[sec].status # "unavailable"]_vars

\* C40: POST /book with a motorcycle never goes down the discrete path: with a vehicle
\* that is not the caller's it is refused and nothing changes, and otherwise it is a
\* motorcycle-section booking, whose steps leave every discrete spot as it is and either
\* change nothing in the sections or take one reserved unit of the section it names.
C40_MotorcycleNeverTakesSpot ==
  [][\A p \in Procs :
       proc'[p] # proc[p] =>
         /\ ( /\ proc'[p].op = "book"
              /\ ToLowerCase(VehicleType(proc'[p].veh)) = "motorcycle" ) =>
              /\ proc'[p].step = "done" /\ ~proc'[p].ok
              /\ VehicleOwner(proc'[p].veh) # proc'[p].user
              /\ UNCHANGED <<spots, sections, reservations>>
         /\ proc'[p].op = "book_moto" =>
              /\ spots' = spots
              /\ \/ sections' = sections
                 \/ sections' = [sections EXCEPT ![proc'[p].sec].reserved_count = @ + 1]]_vars

\* a motorcycle booking has succeeded for a section whose id is also the id of a discrete
\* spot, and that spot is available
C40_Witness ==
  \E p \in Procs :
    /\ Done(p) /\ proc[p].op = "book_moto" /\ proc[p].ok
    /\ proc[p].sec \in SpotIds
    /\ spots[proc[p].sec].status = "available"
    /\ Exists(proc[p].rid)
    /\ reservations[proc[p].rid].parking_section_id = proc[p].sec
====
